---- MODULE Spec2Model ----
(***************************************************************************)
(* A model of run.py, the rubric-driven scorer of the Docker challenge.    *)
(*                                                                         *)
(* File contents are sequences of one-character strings, so that the       *)
(* regular expressions and the substring tests of the static checks are    *)
(* computed character by character, as the code computes them.             *)
(* Every subprocess call has one of three outcomes: "exit0", "nonzero"     *)
(* (the process ran and returned a non-zero status) or "raise"             *)
(* (subprocess.run raised: the executable is missing or the timeout        *)
(* expired).                                                               *)
(***************************************************************************)
EXTENDS Integers, Sequences, FiniteSets, TLC

VARIABLES
    dockerfile,     \* the file Dockerfile: [exists, readable, content]
    dockerignore,   \* the file .dockerignore
    compose,        \* the file docker-compose.yml
    docker_probe,   \* outcome of `docker --version`, "pending" before it ran
    pc,             \* position in run_checks
    idx,            \* index of the for loop over checks_funcs
    total_points,   \* run_checks' local total_points
    earned_points,  \* run_checks' local earned_points
    calls,          \* the check functions called so far, in call order
    printed,        \* the result lines printed so far: [name, ok]
    report,         \* what the run printed last: "none", the abort or the summary
    cpc,            \* position in check_container_runs
    cmds,           \* the docker commands check_container_runs issued: [cmd, out]
    health,         \* what the health GET produced, NotRequested before it ran
    success,        \* check_container_runs' local success
    ret             \* what check_container_runs returned

vars == <<dockerfile, dockerignore, compose, docker_probe, pc, idx, total_points,
          earned_points, calls, printed, report, cpc, cmds, health, success, ret>>

(***************************************************************************)
(* Bounds of the inputs.                                                   *)
(***************************************************************************)
\* the longest run of blanks between USER and its argument
MaxWs == 2

(***************************************************************************)
(* Text.                                                                   *)
(***************************************************************************)
NL == "\n"

kwFROM == <<"F", "R", "O", "M">>
kwUSER == <<"U", "S", "E", "R">>
sSlim == <<"s", "l", "i", "m">>
sAlpine == <<"a", "l", "p", "i", "n", "e">>
sUseradd == <<"u", "s", "e", "r", "a", "d", "d">>
sAdduser == <<"a", "d", "d", "u", "s", "e", "r">>
sHealthcheck == <<"H", "E", "A", "L", "T", "H", "C", "H", "E", "C", "K">>
sRoot == <<"r", "o", "o", "t">>
sPycache == <<"_", "_", "p", "y", "c", "a", "c", "h", "e", "_", "_">>
sPyc == <<"*", ".", "p", "y", "c">>
sVenv == <<"v", "e", "n", "v">>
sDotVenv == <<".", "v", "e", "n", "v">>
sApi == <<"a", "p", "i", ":">>
sPorts == <<"5", "0", "0", "0", ":", "5", "0", "0", "0">>

\* Python's \s, on the characters the inputs use
IsSpace(c) == c \in {" ", NL, "\t"}

\* s[i..] starts with p
StartsWithAt(s, i, p) ==
    /\ i >= 1
    /\ i + Len(p) - 1 <= Len(s)
    /\ \A k \in 1..Len(p) : s[i + k - 1] = p[k]

\* Python's `p in s`
Contains(s, p) == \E i \in 1..(Len(s) + 1) : StartsWithAt(s, i, p)

\* ^ under re.MULTILINE: the start of the text or just after a newline
LineStart(s, i) == i = 1 \/ (i >= 2 /\ i - 1 <= Len(s) /\ s[i - 1] = NL)

\* the first index >= j that holds no blank (Len(s) + 1 when there is none)
SkipSpace(s, j) ==
    CHOOSE k \in j..(Len(s) + 1) :
        /\ \A m \in j..(k - 1) : IsSpace(s[m])
        /\ k <= Len(s) => ~IsSpace(s[k])

\* the first index >= j that holds a blank (Len(s) + 1 when there is none)
SkipNonSpace(s, j) ==
    CHOOSE k \in j..(Len(s) + 1) :
        /\ \A m \in j..(k - 1) : ~IsSpace(s[m])
        /\ k <= Len(s) => IsSpace(s[k])

\* ^FROM\s+ matches at i
FromAt(s, i) ==
    /\ LineStart(s, i)
    /\ StartsWithAt(s, i, kwFROM)
    /\ i + 4 <= Len(s)
    /\ IsSpace(s[i + 4])

\* len(re.findall(r'^FROM\s+', content, re.MULTILINE)): the scan restarts where
\* the last match ended
CountFrom(s, p) ==
    LET scan[q \in 1..(Len(s) + 1)] ==
            IF q > Len(s) THEN 0
            ELSE IF FromAt(s, q) THEN 1 + scan[SkipSpace(s, q + 4)]
            ELSE scan[q + 1]
    IN  scan[p]

\* ^FROM\s+(\S+) matches at i: the greedy \s+ takes the whole run of blanks and
\* \S+ needs one character after it
FromImageAt(s, i) == FromAt(s, i) /\ SkipSpace(s, i + 4) <= Len(s)

\* re.findall(r'^FROM\s+(\S+)', content, re.MULTILINE): the captured image
\* references, in order
FindFromImages(s, p) ==
    LET scan[q \in 1..(Len(s) + 1)] ==
            IF q > Len(s) THEN <<>>
            ELSE IF FromImageAt(s, q)
                 THEN <<SubSeq(s, SkipSpace(s, q + 4),
                               SkipNonSpace(s, SkipSpace(s, q + 4)) - 1)>>
                      \o scan[SkipNonSpace(s, SkipSpace(s, q + 4))]
            ELSE scan[q + 1]
    IN  scan[p]

\* re.search(r'^USER\s+(?!root)', content, re.MULTILINE): \s+ may give blanks
\* back, so the lookahead is tried after every non-empty prefix of the run
UserNotRootAt(s, i) ==
    /\ LineStart(s, i)
    /\ StartsWithAt(s, i, kwUSER)
    /\ \E e \in (i + 5)..SkipSpace(s, i + 4) : ~StartsWithAt(s, e, sRoot)

SearchUserNotRoot(s) == \E i \in 1..Len(s) : UserNotRootAt(s, i)

(***************************************************************************)
(* The rubric.                                                             *)
(***************************************************************************)
CHECKS == <<
    [name |-> "Dockerfile exists", points |-> 5],
    [name |-> "Multi-stage build", points |-> 15],
    [name |-> "Uses slim base image", points |-> 10],
    [name |-> "Non-root user", points |-> 15],
    [name |-> "Health check defined", points |-> 10],
    [name |-> ".dockerignore exists", points |-> 5],
    [name |-> "docker-compose.yml valid", points |-> 15],
    [name |-> "Image builds successfully", points |-> 10],
    [name |-> "Image size < 200MB", points |-> 10],
    [name |-> "Container runs and responds", points |-> 5] >>

\* next(c for c in CHECKS if c["name"] == name)["points"]
PointsOf(name) ==
    LET i == CHOOSE k \in 1..Len(CHECKS) :
                 /\ CHECKS[k].name = name
                 /\ \A j \in 1..(k - 1) : CHECKS[j].name # name
    IN  CHECKS[i].points

\* the names of checks_funcs, in order
checks_funcs == <<
    "Dockerfile exists", "Multi-stage build", "Uses slim base image",
    "Non-root user", "Health check defined", ".dockerignore exists",
    "docker-compose.yml valid" >>

(***************************************************************************)
(* What a call produces: a returned value or an exception.                 *)
(***************************************************************************)
Returns(v) == [raised |-> FALSE, ret |-> v]
Raises == [raised |-> TRUE, ret |-> FALSE]

\* no handler at all: the exception leaves the function
NoExcept(r) == r

\* try: ... except: return False
BareExcept(r) == IF r.raised THEN Returns(FALSE) ELSE r

\* open(name, "r").read() / Path.read_text(): raises when the file is missing or
\* cannot be read or decoded
ReadRaises(f) == ~f.exists \/ ~f.readable

(***************************************************************************)
(* The static checks.                                                      *)
(***************************************************************************)
\* a stat that always fails
check_dockerfile_exists_never(f) == Returns(FALSE)

\* Path("Dockerfile").exists(): a stat, which needs no permission on the file
check_dockerfile_exists(f) == Returns(f.exists)

check_multistage(f) ==
    BareExcept(IF ReadRaises(f) THEN Raises
               ELSE Returns(CountFrom(f.content, 1) >= 2))

check_slim_image(f) ==
    BareExcept(IF ReadRaises(f) THEN Raises
               ELSE LET from_statements == FindFromImages(f.content, 1)
                    IN  IF from_statements # <<>>
                        THEN LET last_from == from_statements[Len(from_statements)]
                             IN  Returns(Contains(last_from, sSlim)
                                         \/ Contains(last_from, sAlpine))
                        ELSE Returns(FALSE))

check_nonroot_user(f) ==
    BareExcept(IF ReadRaises(f) THEN Raises
               ELSE LET has_useradd == Contains(f.content, sUseradd)
                                       \/ Contains(f.content, sAdduser)
                        has_user == SearchUserNotRoot(f.content)
                    IN  Returns(has_useradd /\ has_user))

check_healthcheck(f) ==
    BareExcept(IF ReadRaises(f) THEN Raises
               ELSE Returns(Contains(f.content, sHealthcheck)))

check_dockerignore(f) ==
    BareExcept(IF ~f.exists THEN Returns(FALSE)
               ELSE IF ReadRaises(f) THEN Raises
               ELSE LET has_pycache == Contains(f.content, sPycache)
                                       \/ Contains(f.content, sPyc)
                        has_venv == Contains(f.content, sVenv)
                                    \/ Contains(f.content, sDotVenv)
                    IN  Returns(has_pycache /\ has_venv))

check_compose_valid(f) ==
    BareExcept(IF ~f.exists THEN Returns(FALSE)
               ELSE IF ReadRaises(f) THEN Raises
               ELSE LET has_api == Contains(f.content, sApi)
                        has_ports == Contains(f.content, sPorts)
                    IN  Returns(has_api /\ has_ports))

\* func() for the i-th entry of checks_funcs
CallStatic(i) ==
    CASE i = 1 -> check_dockerfile_exists(dockerfile)
      [] i = 2 -> check_multistage(dockerfile)
      [] i = 3 -> check_slim_image(dockerfile)
      [] i = 4 -> check_nonroot_user(dockerfile)
      [] i = 5 -> check_healthcheck(dockerfile)
      [] i = 6 -> check_dockerignore(dockerignore)
      [] i = 7 -> check_compose_valid(compose)

(***************************************************************************)
(* The checks that drive docker.                                           *)
(***************************************************************************)
ProcOutcomes == {"exit0", "nonzero", "raise"}

\* a build with no handler around subprocess.run
check_image_builds_notry(o) ==
    NoExcept(IF o = "raise" THEN Raises ELSE Returns(o = "exit0"))

check_image_builds(o) ==
    BareExcept(IF o = "raise" THEN Raises ELSE Returns(o = "exit0"))

\* What `docker images --format {{.Size}}` printed: the text before the unit as
\* float() reads it (numeric FALSE when float() raises ValueError, as on the
\* empty output for an unknown image or on two lines of output), in tenths,
\* and the unit.
SizeOutputs == {
    [numeric |-> TRUE, tenths |-> 1420, unit |-> "MB"],
    [numeric |-> TRUE, tenths |-> 2000, unit |-> "MB"],
    [numeric |-> TRUE, tenths |-> 12, unit |-> "GB"],
    [numeric |-> TRUE, tenths |-> 5000, unit |-> "KB"],
    [numeric |-> FALSE, tenths |-> 0, unit |-> "MB"],
    [numeric |-> FALSE, tenths |-> 0, unit |-> ""] }

\* the budget of check_image_size, in tenths of a megabyte
SizeBudgetTenths == 2000

\* the size in tenths of a megabyte: GB is * 1024
SizeMbTenths(out) == IF out.unit = "GB" THEN out.tenths * 1024 ELSE out.tenths

\* except Exception as e: return False, str(e)
check_image_size(o, out) ==
    BareExcept(IF o = "raise" THEN Raises
               ELSE IF o # "exit0" THEN Returns(FALSE)
               ELSE IF out.unit \notin {"GB", "MB"} THEN Returns(FALSE)
               ELSE IF ~out.numeric THEN Raises
               ELSE Returns(SizeMbTenths(out) < SizeBudgetTenths))

\* What urlopen and response.read() produced: an error (refused, timeout, HTTP
\* status) or a body; a body is well-formed JSON or not, and a well-formed one
\* is an object (with or without "status") or another JSON value.
HealthResponses == {
    [error |-> TRUE, json |-> FALSE, object |-> FALSE, status |-> "absent"],
    [error |-> FALSE, json |-> FALSE, object |-> FALSE, status |-> "absent"],
    [error |-> FALSE, json |-> TRUE, object |-> FALSE, status |-> "absent"],
    [error |-> FALSE, json |-> TRUE, object |-> TRUE, status |-> "absent"],
    [error |-> FALSE, json |-> TRUE, object |-> TRUE, status |-> "unhealthy"],
    [error |-> FALSE, json |-> TRUE, object |-> TRUE, status |-> "healthy"] }

\* try: urlopen; json.loads; data.get("status") == "healthy"  except: False
\* (urlopen raises on an error, json.loads on a malformed body, .get on a JSON
\* value that is no object)
HealthSuccess(r) ==
    BareExcept(IF r.error \/ ~r.json \/ ~r.object THEN Raises
               ELSE Returns(r.status = "healthy")).ret

(***************************************************************************)
(* The inputs: the three files of the working directory.                   *)
(***************************************************************************)
Absent == [exists |-> FALSE, readable |-> FALSE, content |-> <<>>]
\* present, but open() or the decoding raises
Unreadable == [exists |-> TRUE, readable |-> FALSE, content |-> <<>>]
File(text) == [exists |-> TRUE, readable |-> TRUE, content |-> text]

Spaces(n) == [i \in 1..n |-> " "]
UserLine(n, arg) == kwUSER \o Spaces(n) \o arg

sApp == <<"a", "p", "p">>
sRootless == sRoot \o <<"l", "e", "s", "s">>
lineFromSlim == kwFROM \o <<" ">> \o sSlim
lineFromDeb == kwFROM \o <<" ", "d", "e", "b">>
lineRunUseradd == <<"R", "U", "N", " ">> \o sUseradd \o <<" ">> \o sApp
lineHealthcheck == sHealthcheck \o <<" ", "C", "M", "D", " ", "x">>

\* the lines a Dockerfile may hold, section by section; <<>> is a section
\* left out
StageLines == {<<>>, lineFromDeb, lineFromSlim}
UseraddLines == {<<>>, lineRunUseradd}
UserLines ==
    {<<>>, UserLine(1, sRootless)}
    \cup {UserLine(n, a) : n \in 1..MaxWs, a \in {sRoot, sApp}}
HealthLines == {<<>>, lineHealthcheck}

\* the lines that are present, each ended by a newline
RECURSIVE Join(_)
Join(ls) ==
    IF ls = <<>> THEN <<>>
    ELSE IF Head(ls) = <<>> THEN Join(Tail(ls))
    ELSE Head(ls) \o <<NL>> \o Join(Tail(ls))

Dockerfiles ==
    {Absent, Unreadable}
    \cup {File(Join(<<s1, s2, ua, us, hc>>)) :
            s1 \in StageLines, s2 \in StageLines, ua \in UseraddLines,
            us \in UserLines, hc \in HealthLines}

Dockerignores ==
    {Absent, Unreadable,
     File(sPyc \o <<NL>> \o sDotVenv \o <<NL>>),
     File(sPycache \o <<NL>>)}

Composes ==
    {Absent,
     File(sApi \o <<NL, " ">> \o sPorts \o <<NL>>),
     File(sApi \o <<NL>>)}

(***************************************************************************)
(* run_checks.                                                             *)
(***************************************************************************)
\* no health GET was made yet
NotRequested == [error |-> TRUE, json |-> FALSE, object |-> FALSE,
                 status |-> "not_requested"]

NoReport == [kind |-> "none", earned |-> 0, total |-> 0, pct |-> 0,
             bar_filled |-> 0, message |-> "none"]
Unavailable == [kind |-> "docker_unavailable", earned |-> 0, total |-> 0, pct |-> 0,
                bar_filled |-> 0, message |-> "none"]

Init ==
    /\ dockerfile \in Dockerfiles
    /\ dockerignore \in Dockerignores
    /\ compose \in Composes
    /\ docker_probe = "pending"
    /\ pc = "start"
    /\ idx = 1
    /\ total_points = 0
    /\ earned_points = 0
    /\ calls = <<>>
    /\ printed = <<>>
    /\ report = NoReport
    /\ cpc = "idle"
    /\ cmds = <<>>
    /\ health = NotRequested
    /\ success = FALSE
    /\ ret = FALSE

files == <<dockerfile, dockerignore, compose>>
probe_vars == <<cpc, cmds, health, success, ret>>

\* a probe that never ends the run
ProbeNeverAborts(o) == FALSE

\* try: subprocess.run(["docker", "--version"], ...) except: ... return
\* the exit status is not looked at
ProbeAborts(o) == o = "raise"

\* total_points += 0
AddTotalForgotten(t, pts) == t

\* total_points += check["points"]
AddTotal(t, pts) == t + pts

\* earned_points += check["points"], when the check passed
Earn(e, passed, pts) == IF passed THEN e + pts ELSE e

\* the build failed and the denominator is left as it is
BuildFailedTotalUnchanged(t) == t

\* total_points += 15  # Add points for size and run checks
BuildFailedTotal(t) == t + 15

\* the container is probed only when the size check passed
AfterSizeGated(passed) == IF passed THEN "run_total" ELSE "summary"

\* the run check follows the size check whatever it returned
AfterSize(passed) == "run_total"

\* the factor 100 left out
PercentageUnscaled(e, t) == IF t > 0 THEN e \div t ELSE 0

\* int((earned_points / total_points) * 100) if total_points > 0 else 0
\* (on the multiples of 5 up to 100 the double-precision quotient, times 100,
\* truncates to the exact floor)
Percentage(e, t) == IF t > 0 THEN (e * 100) \div t ELSE 0

\* lines 225-231: the probe of the docker CLI
ProbeDocker ==
    /\ pc = "start"
    /\ \E o \in ProcOutcomes :
        /\ docker_probe' = o
        /\ IF ProbeAborts(o)
           THEN /\ report' = Unavailable
                /\ pc' = "aborted"
           ELSE /\ report' = report
                /\ pc' = "loop_total"
    /\ UNCHANGED <<files, idx, total_points, earned_points, calls, printed, probe_vars>>

\* lines 250-252: the loop head
LoopTotal ==
    /\ pc = "loop_total"
    /\ total_points' = AddTotal(total_points, PointsOf(checks_funcs[idx]))
    /\ pc' = "loop_call"
    /\ UNCHANGED <<files, docker_probe, idx, earned_points, calls, printed, report,
                   probe_vars>>

\* lines 254-259: the call of the idx-th file check and its result line
LoopCall ==
    /\ pc = "loop_call"
    /\ LET name == checks_funcs[idx]
           r == CallStatic(idx)
       IN  /\ calls' = Append(calls, name)
           /\ IF r.raised
              THEN /\ pc' = "crashed"
                   /\ UNCHANGED <<idx, earned_points, printed>>
              ELSE /\ earned_points' = Earn(earned_points, r.ret, PointsOf(name))
                   /\ printed' = Append(printed, [name |-> name, ok |-> r.ret])
                   /\ idx' = idx + 1
                   /\ pc' = IF idx < Len(checks_funcs) THEN "loop_total"
                            ELSE "build_total"
    /\ UNCHANGED <<files, docker_probe, total_points, report, probe_vars>>

\* lines 264-265
BuildTotal ==
    /\ pc = "build_total"
    /\ total_points' = AddTotal(total_points, PointsOf("Image builds successfully"))
    /\ pc' = "build_call"
    /\ UNCHANGED <<files, docker_probe, idx, earned_points, calls, printed, report,
                   probe_vars>>

\* lines 267-269 and 294-295: docker build
BuildCall ==
    /\ pc = "build_call"
    /\ \E o \in ProcOutcomes :
        LET name == "Image builds successfully"
            r == check_image_builds(o)
        IN  /\ calls' = Append(calls, name)
            /\ IF r.raised
               THEN /\ pc' = "crashed"
                    /\ UNCHANGED <<earned_points, printed>>
               ELSE /\ earned_points' = Earn(earned_points, r.ret, PointsOf(name))
                    /\ printed' = Append(printed, [name |-> name, ok |-> r.ret])
                    /\ pc' = IF r.ret THEN "size_total" ELSE "build_failed"
    /\ UNCHANGED <<files, docker_probe, idx, total_points, report, probe_vars>>

\* line 296
BuildFailed ==
    /\ pc = "build_failed"
    /\ total_points' = BuildFailedTotal(total_points)
    /\ pc' = "summary"
    /\ UNCHANGED <<files, docker_probe, idx, earned_points, calls, printed, report,
                   probe_vars>>

\* lines 272-273
SizeTotal ==
    /\ pc = "size_total"
    /\ total_points' = AddTotal(total_points, PointsOf("Image size < 200MB"))
    /\ pc' = "size_call"
    /\ UNCHANGED <<files, docker_probe, idx, earned_points, calls, printed, report,
                   probe_vars>>

\* lines 275-280: docker images (the size text of the result line is left out)
SizeCall ==
    /\ pc = "size_call"
    /\ \E o \in ProcOutcomes, out \in SizeOutputs :
        LET name == "Image size < 200MB"
            r == check_image_size(o, out)
        IN  /\ calls' = Append(calls, name)
            /\ IF r.raised
               THEN /\ pc' = "crashed"
                    /\ UNCHANGED <<earned_points, printed>>
               ELSE /\ earned_points' = Earn(earned_points, r.ret, PointsOf(name))
                    /\ printed' = Append(printed, [name |-> name, ok |-> r.ret])
                    /\ pc' = AfterSize(r.ret)
    /\ UNCHANGED <<files, docker_probe, idx, total_points, report, probe_vars>>

\* lines 283-284
RunTotal ==
    /\ pc = "run_total"
    /\ total_points' = AddTotal(total_points, PointsOf("Container runs and responds"))
    /\ pc' = "run_call"
    /\ UNCHANGED <<files, docker_probe, idx, earned_points, calls, printed, report,
                   probe_vars>>

(***************************************************************************)
(* check_container_runs, called at line 288.  One bare except surrounds    *)
(* the whole body: whatever raises inside it ends the function with False, *)
(* from the place where it was raised.                                     *)
(***************************************************************************)
ContainerCheck == "Container runs and responds"

\* lines 184-185: docker rm -f of a container a former run may have left; the
\* exit status is not looked at
PreRemove ==
    /\ pc = "run_call"
    /\ cpc = "idle"
    /\ calls' = Append(calls, ContainerCheck)
    /\ \E o \in ProcOutcomes :
        /\ cmds' = Append(cmds, [cmd |-> "rm", out |-> o])
        /\ IF o = "raise"
           THEN /\ ret' = FALSE
                /\ cpc' = "returned"
           ELSE /\ ret' = ret
                /\ cpc' = "start"
    /\ UNCHANGED <<files, docker_probe, pc, idx, total_points, earned_points, printed,
                   report, health, success>>

\* lines 188-197: docker run -d; a non-zero status returns False at once
StartContainer ==
    /\ pc = "run_call"
    /\ cpc = "start"
    /\ \E o \in ProcOutcomes :
        /\ cmds' = Append(cmds, [cmd |-> "run", out |-> o])
        /\ IF o = "exit0"
           THEN /\ ret' = ret
                /\ cpc' = "sleep"
           ELSE /\ ret' = FALSE
                /\ cpc' = "returned"
    /\ UNCHANGED <<files, docker_probe, pc, idx, total_points, earned_points, calls,
                   printed, report, health, success>>

\* lines 200-201: time.sleep(3)
SettleDelay ==
    /\ pc = "run_call"
    /\ cpc = "sleep"
    /\ cpc' = "probe"
    /\ UNCHANGED <<files, docker_probe, pc, idx, total_points, earned_points, calls,
                   printed, report, cmds, health, success, ret>>

\* lines 204-210: the health GET, under its own bare except
HealthGet ==
    /\ pc = "run_call"
    /\ cpc = "probe"
    /\ \E r \in HealthResponses :
        /\ health' = r
        /\ success' = HealthSuccess(r)
    /\ cpc' = "cleanup"
    /\ UNCHANGED <<files, docker_probe, pc, idx, total_points, earned_points, calls,
                   printed, report, cmds, ret>>

\* lines 213-218: docker rm -f, then return success; the exit status is not
\* looked at, an exception of subprocess.run reaches the outer except
Cleanup ==
    /\ pc = "run_call"
    /\ cpc = "cleanup"
    /\ \E o \in ProcOutcomes :
        /\ cmds' = Append(cmds, [cmd |-> "rm", out |-> o])
        /\ ret' = IF o = "raise" THEN FALSE ELSE success
    /\ cpc' = "returned"
    /\ UNCHANGED <<files, docker_probe, pc, idx, total_points, earned_points, calls,
                   printed, report, health, success>>

\* lines 288-292: the result of check_container_runs
RunResult ==
    /\ pc = "run_call"
    /\ cpc = "returned"
    /\ earned_points' = Earn(earned_points, ret, PointsOf(ContainerCheck))
    /\ printed' = Append(printed, [name |-> ContainerCheck, ok |-> ret])
    /\ pc' = "summary"
    /\ UNCHANGED <<files, docker_probe, idx, total_points, calls, report, probe_vars>>

\* lines 298-315: the score line and the closing message
Summary ==
    /\ pc = "summary"
    /\ LET pct == Percentage(earned_points, total_points)
       IN  report' = [kind |-> "summary",
                      earned |-> earned_points,
                      total |-> total_points,
                      pct |-> pct,
                      bar_filled |-> pct \div 5,
                      message |-> IF pct = 100 THEN "complete"
                                  ELSE IF pct >= 70 THEN "almost"
                                  ELSE "keep_going"]
    /\ pc' = "done"
    /\ UNCHANGED <<files, docker_probe, idx, total_points, earned_points, calls,
                   printed, probe_vars>>

Next ==
    \/ ProbeDocker
    \/ LoopTotal
    \/ LoopCall
    \/ BuildTotal
    \/ BuildCall
    \/ BuildFailed
    \/ SizeTotal
    \/ SizeCall
    \/ RunTotal
    \/ PreRemove
    \/ StartContainer
    \/ SettleDelay
    \/ HealthGet
    \/ Cleanup
    \/ RunResult
    \/ Summary

Spec == Init /\ [][Next]_vars

\* run_checks is one sequential thread: a step that can be taken is taken
FairSpec == Spec /\ WF_vars(Next)

(***************************************************************************)
(* What the claims speak of.                                               *)
(***************************************************************************)
BuildCheck == "Image builds successfully"
SizeCheck == "Image size < 200MB"

\* the order of the rubric: the seven file checks, the build, the size, the run
FullOrder == checks_funcs \o <<BuildCheck, SizeCheck, ContainerCheck>>

Called(name) == \E i \in 1..Len(calls) : calls[i] = name
Passed(name) == \E i \in 1..Len(printed) : printed[i].name = name /\ printed[i].ok
Failed(name) == \E i \in 1..Len(printed) : printed[i].name = name /\ ~printed[i].ok

StaticNames == {checks_funcs[i] : i \in 1..Len(checks_funcs)}
StaticDone == pc \in {"build_total", "build_call", "build_failed", "size_total",
                      "size_call", "run_total", "run_call", "summary", "done"}
AtSummary == pc \in {"summary", "done"}

\* the rubric as a table from names to points
RubricPoints ==
    [n \in {CHECKS[k].name : k \in 1..Len(CHECKS)} |->
        CHECKS[CHOOSE k \in 1..Len(CHECKS) : CHECKS[k].name = n].points]

\* the rubric points of a sequence of check names
RECURSIVE SumPoints(_)
SumPoints(names) ==
    IF names = <<>> THEN 0 ELSE RubricPoints[Head(names)] + SumPoints(Tail(names))

StartAttempted == \E i \in 1..Len(cmds) : cmds[i].cmd = "run"
StartExitedZero == \E i \in 1..Len(cmds) : cmds[i] = [cmd |-> "run", out |-> "exit0"]
RemovedAfterStart ==
    \E i, j \in 1..Len(cmds) : i < j /\ cmds[i].cmd = "run" /\ cmds[j].cmd = "rm"

\* C1: when check_container_runs has returned after attempting to start the
\* container, a docker rm -f was issued after the start attempt.
C1_RemovedOnEveryExit ==
    (cpc = "returned" /\ StartAttempted) => RemovedAfterStart

\* C2 as stated: at Summary total_points is the sum of the rubric points of
\* the checks that were attempted, and with the seven file checks passing and
\* the build failing earned_points is 75.
C2_TotalIsSumOfAttempted ==
    AtSummary =>
        /\ total_points = SumPoints(calls)
        /\ ((\A n \in StaticNames : Passed(n)) /\ Failed(BuildCheck))
               => earned_points = 75

\* C2 as amended: at Summary total_points is the sum of the rubric points of
\* the checks that were attempted plus, when the build failed, 15 points for
\* the two checks that were not attempted; with the seven file checks passing
\* and the build failing earned_points is 75 and total_points is 100.
C2_TotalIsAttemptedPlusPlaceholder ==
    AtSummary =>
        /\ total_points = SumPoints(calls) + (IF Failed(BuildCheck) THEN 15 ELSE 0)
        /\ Failed(BuildCheck) => (~Called(SizeCheck) /\ ~Called(ContainerCheck))
        /\ ((\A n \in StaticNames : Passed(n)) /\ Failed(BuildCheck))
               => (earned_points = 75 /\ total_points = 100)

C2_Witness ==
    /\ pc = "done"
    /\ \A n \in StaticNames : Passed(n)
    /\ Failed(BuildCheck)
    /\ report.earned = 75

\* C3: earned_points never exceeds total_points, in any state of run_checks.
C3_EarnedAtMostTotal == earned_points <= total_points

C3_Witness ==
    /\ pc = "loop_total"
    /\ idx = 3
    /\ earned_points = 20
    /\ total_points = 20

\* C4: the checks are called in the order of the rubric, each at most once;
\* the seven file checks have all been called when the build is attempted;
\* at Summary the build was attempted, and the size check and the run check
\* were each attempted exactly when the build passed.
C4_FixedOrder ==
    /\ Len(calls) <= Len(FullOrder)
    /\ calls = SubSeq(FullOrder, 1, Len(calls))
    /\ pc \in {"build_total", "build_call"} => calls = checks_funcs
    /\ StaticDone =>
        /\ Len(printed) >= Len(checks_funcs)
        /\ \A i \in 1..Len(checks_funcs) : printed[i].name = checks_funcs[i]
    /\ AtSummary =>
        /\ Called(BuildCheck)
        /\ Called(SizeCheck) <=> Passed(BuildCheck)
        /\ Called(ContainerCheck) <=> Passed(BuildCheck)

C4_Witness ==
    /\ pc = "done"
    /\ Failed("Dockerfile exists")
    /\ Passed(BuildCheck)
    /\ Failed(SizeCheck)
    /\ Called(ContainerCheck)

\* C5: when the probe of the docker CLI raised, the run has ended with the
\* Docker-unavailable message and nothing else: no check was called, no
\* result line and no summary was printed, and no step follows.
C5_AbortBeforeAnyCheck ==
    docker_probe = "raise" =>
        /\ pc = "aborted"
        /\ report = Unavailable
        /\ calls = <<>>
        /\ printed = <<>>
        /\ cmds = <<>>
        /\ total_points = 0
        /\ ~ENABLED Next

C5_Witness == pc = "aborted" /\ docker_probe = "raise"

C7_PassedIffHealthy ==
    (cpc = "returned" /\ StartExitedZero) =>
        (ret <=> (/\ ~health.error
                  /\ health.json
                  /\ health.object
                  /\ health.status = "healthy"))

\* the lines of s that start with kw
LinesStarting(s, kw) == {i \in 1..Len(s) : LineStart(s, i) /\ StartsWithAt(s, i, kw)}

\* the working directory of C8: a Dockerfile with one FROM line, no USER line
\* and no HEALTHCHECK; no .dockerignore, no docker-compose.yml
C8_Scenario ==
    /\ ~dockerignore.exists
    /\ ~compose.exists
    /\ dockerfile.exists
    /\ dockerfile.readable
    /\ Cardinality(LinesStarting(dockerfile.content, kwFROM)) = 1
    /\ LinesStarting(dockerfile.content, kwUSER) = {}
    /\ ~Contains(dockerfile.content, sHealthcheck)

\* C8 as stated: in that directory the seven file checks all fail,
\* earned_points is 0 after them, and the reported percentage is 0.
C8_AllSevenFail ==
    (StaticDone /\ C8_Scenario) =>
        /\ \A n \in StaticNames : Failed(n)
        /\ pc = "build_total" => earned_points = 0
        /\ (pc = "done" /\ Failed(BuildCheck)) => report.pct = 0

\* C8 as amended: in that directory, with a FROM line that names neither a
\* slim nor an alpine image, "Dockerfile exists" passes and the other six
\* file checks fail, earned_points is 5 after them, and when the build then
\* fails the summary reports 5 points and 5%.
C8_OnlyExistencePasses ==
    (/\ StaticDone
     /\ C8_Scenario
     /\ ~Contains(dockerfile.content, sSlim)
     /\ ~Contains(dockerfile.content, sAlpine)) =>
        /\ Passed("Dockerfile exists")
        /\ \A n \in StaticNames \ {"Dockerfile exists"} : Failed(n)
        /\ pc = "build_total" => earned_points = 5
        /\ (pc = "done" /\ Failed(BuildCheck)) => (report.earned = 5 /\ report.pct = 5)

C8_Witness ==
    /\ C8_Scenario
    /\ ~Contains(dockerfile.content, sSlim)
    /\ pc = "done"
    /\ Failed(BuildCheck)
    /\ report.pct = 5

\* a USER line at i whose argument, the word after the blanks, is not root
UserArgNotRootAt(s, i) ==
    /\ LineStart(s, i)
    /\ StartsWithAt(s, i, kwUSER)
    /\ i + 4 <= Len(s)
    /\ IsSpace(s[i + 4])
    /\ LET b == SkipSpace(s, i + 4)
       IN  SubSeq(s, b, SkipNonSpace(s, b) - 1) # sRoot

\* C9: the non-root check passes exactly when the Dockerfile contains useradd
\* or adduser and has a USER line whose argument is not root.
C9_NonrootIffUserNotRoot ==
    (Len(printed) >= 4 /\ dockerfile.exists /\ dockerfile.readable) =>
        (printed[4].ok <=>
            (/\ Contains(dockerfile.content, sUseradd)
                \/ Contains(dockerfile.content, sAdduser)
             /\ \E i \in 1..Len(dockerfile.content) :
                    UserArgNotRootAt(dockerfile.content, i)))

\* C10: the summary always reports 100 total points, so the percentage is the
\* number of earned points, and the run is declared complete exactly when all
\* ten checks passed.
C10_TotalIsHundred ==
    pc = "done" =>
        /\ report.total = 100
        /\ report.pct = report.earned
        /\ report.message = "complete" <=>
               (Len(printed) = Len(CHECKS) /\ \A i \in 1..Len(printed) : printed[i].ok)

C10_Witness == pc = "done" /\ report.message = "complete" /\ report.earned = 100

====
